---- MODULE Spec2Model ----
(***************************************************************************)
(* Model of the lesson-plan bot (src/app.py): the webhook handler, the     *)
(* per-chat session map SESS and the helpers the handler calls.            *)
(*                                                                         *)
(* Python strings are sequences of one-character strings, so that strip,   *)
(* lower, endswith, join and the f-strings are computed, not assumed.      *)
(* An optional value (a missing dict key, None) is the empty sequence      *)
(* and a present value v is <<v>>.                                         *)
(***************************************************************************)
EXTENDS Naturals, Sequences, FiniteSets, TLC

VARIABLES
    SESS,                    \* chat id -> session dict (app.py:34)
    OCR_AVAILABLE,           \* set once at import (app.py:15-20)
    last,                    \* what the most recent webhook call did and answered
    th,                      \* the in-flight webhook calls of the threaded server
    step,                    \* position in the find-a-lesson conversation script
    script,                  \* the texts sent by that script
    fn,                      \* input and result of the last helper call
    flow                     \* history: the texts each chat sent since it last entered await_grade

vars == <<SESS, OCR_AVAILABLE, last, th, step, script, fn, flow>>

---------------------------------------------------------------------------
(* Bounds of the model *)

MaxHits == 3      \* search results returned by one ddg call (the code asks for 5)
MaxPages == 2     \* pages of an uploaded PDF
MaxCount == 2     \* largest sentences_count tried on summarize_text
MaxLen == 3       \* longest text tried on summarize_text
MaxPrefix == 2    \* updates served before a script or a pair of overlapping calls
MaxTokens == 4    \* words and marks in a text tried on the generators and the filler

---------------------------------------------------------------------------
(* Strings *)

HI_RISE == <<"/", "H", "i", "_", "R", "i", "s", "e">>
PASTE_TEXT == <<"P", "a", "s", "t", "e", " ", "T", "e", "x", "t">>
ASK_BOT == <<"A", "s", "k", " ", "B", "o", "t", " ", "t", "o", " ", "F", "i", "n", "d", " ", "L", "e", "s", "s", "o", "n">>
NONE_STR == <<"N", "o", "n", "e">>
QUERY_SUFFIX == <<" ", "s", "u", "m", "m", "a", "r", "y", " ", "l", "e", "s", "s", "o", "n">>
DOCX_EXT == <<".", "d", "o", "c", "x">>
PDF_EXT == <<".", "p", "d", "f">>
DEFAULT_NAME == <<"f", "i", "l", "e">>
TITLE_PDF == <<"E", "x", "t", "r", "a", "c", "t", "e", "d", " ", "L", "e", "s", "s", "o", "n">>
TITLE_SCAN == <<"S", "c", "a", "n", "n", "e", "d", " ", "L", "e", "s", "s", "o", "n">>
TITLE_PASTE == <<"P", "a", "s", "t", "e", "d", " ", "L", "e", "s", "s", "o", "n">>
UPPER == <<"A", "B", "C", "D", "E", "F", "G", "H", "I", "J", "K", "L", "M", "N", "O", "P", "Q", "R", "S", "T", "U", "V", "W", "X", "Y", "Z">>
LOWER == <<"a", "b", "c", "d", "e", "f", "g", "h", "i", "j", "k", "l", "m", "n", "o", "p", "q", "r", "s", "t", "u", "v", "w", "x", "y", "z">>
PAR_SEP == <<"\n", "\n">>
SP == <<" ">>
NL == <<"\n">>

\* str.strip(): leading and trailing whitespace removed
IsSpace(ch) == ch \in {" ", "\n", "\t", "\r"}

RECURSIVE LStrip(_)
LStrip(s) ==
    IF s = <<>> \/ ~IsSpace(Head(s)) THEN s ELSE LStrip(Tail(s))

RECURSIVE RStrip(_)
RStrip(s) ==
    IF s = <<>> \/ ~IsSpace(s[Len(s)]) THEN s ELSE RStrip(SubSeq(s, 1, Len(s) - 1))

Strip(s) == RStrip(LStrip(s))

\* str.lower()
LowerChar(ch) ==
    IF \E i \in 1..Len(UPPER) : UPPER[i] = ch
    THEN LOWER[CHOOSE i \in 1..Len(UPPER) : UPPER[i] = ch]
    ELSE ch

Lower(s) == [i \in 1..Len(s) |-> LowerChar(s[i])]

\* str.endswith(suffix)
EndsWith(s, suffix) ==
    /\ Len(s) >= Len(suffix)
    /\ SubSeq(s, Len(s) - Len(suffix) + 1, Len(s)) = suffix

\* sep.join(parts)
RECURSIVE Join(_, _)
Join(parts, sep) ==
    IF parts = <<>> THEN <<>>
    ELSE IF Len(parts) = 1 THEN parts[1]
    ELSE parts[1] \o sep \o Join(Tail(parts), sep)

\* whether sub occurs in s as a contiguous substring (Python's  sub in s)
Contains(s, sub) ==
    \E i \in 0..(Len(s) - Len(sub)) : SubSeq(s, i + 1, i + Len(sub)) = sub

\* an optional value inside an f-string: None prints as "None"
Fmt(opt) == IF opt = <<>> THEN NONE_STR ELSE opt[1]

\* x or y  on strings: the empty string is falsy
OrElse(x, y) == IF x # <<>> THEN x ELSE y

---------------------------------------------------------------------------
(* Inputs: message texts, file names, documents, search results *)

TxtGrade == <<"G", "6">>
TxtSubject == <<" ", "M", "a", " ">>
TxtChapter == <<"F", "r", ".", " ", "x">>
TxtBlank == <<" ">>
PadHiRise == <<" ", "/", "H", "i", "_", "R", "i", "s", "e", "\n">>
FnTemplate == <<"t", ".", "D", "O", "C", "X">>
FnPdf == <<"b", ".", "P", "d", "f">>
FnOther == <<"n", ".", "t", "x", "t">>
PageA == <<"A", "b", ".", " ", "c", "d">>
PageB == <<"X", "y">>
SnippetA == <<"S", "n">>

\* chat ids; Callers are the ones that send updates
Chats == {1, 2}

Callers == {1}

\* texts that are not commands once stripped
PlainTexts == {TxtGrade, TxtSubject, TxtChapter}

\* the texts of the find-a-lesson script
ScriptTexts == {TxtGrade, TxtSubject, TxtChapter, TxtBlank}

Texts == {HI_RISE, PadHiRise, PASTE_TEXT, ASK_BOT} \cup PlainTexts

IsCommand(text) == Strip(text) \in {HI_RISE, PASTE_TEXT, ASK_BOT}

\* The "message" object of an update; has_x is  "x" in msg
BlankMsg ==
    [has_message |-> TRUE, has_chat |-> TRUE, chat |-> 1,
     has_text |-> FALSE, text |-> <<>>,
     has_document |-> FALSE, file_name |-> <<>>,
     has_photo |-> FALSE]

TextMsg(c, text) == [BlankMsg EXCEPT !.chat = c, !.has_text = TRUE, !.text = text]

\* file_name is optional: <<>> when the key is missing, <<name>> otherwise
DocMsg(c, name) == [BlankMsg EXCEPT !.chat = c, !.has_document = TRUE, !.file_name = name]

PhotoMsg(c) == [BlankMsg EXCEPT !.chat = c, !.has_photo = TRUE]

OtherMsg(c) == [BlankMsg EXCEPT !.chat = c]

NoChatMsg == [BlankMsg EXCEPT !.has_chat = FALSE, !.has_text = TRUE, !.text = TxtGrade]

NoMessage == [BlankMsg EXCEPT !.has_message = FALSE, !.has_chat = FALSE]

FileNames == {<<>>, <<FnTemplate>>, <<FnPdf>>, <<FnOther>>}

\* An uploaded PDF as PyPDF2 sees it: whether PdfReader opens it, and for each
\* page whether extract_text returns (t) or raises
Page == [ok : BOOLEAN, t : {<<>>, PageA}]

Pages == {p \in Page : p.ok \/ p.t = <<>>}

Pdfs ==
    {[readable |-> FALSE, pages |-> <<>>]} \cup
    {[readable |-> TRUE, pages |-> ps] : ps \in UNION {[1..n -> Pages] : n \in 0..MaxPages}}

\* The page behind a search result: the GET fails ("neterr"), readability or
\* BeautifulSoup raises on the body ("raise"), or the main text is t
WebPage == [status : {"neterr", "raise", "ok"}, t : {PageB}]

WebPages == WebPage

\* One ddg result: has_url is whether it carries href/url, body its snippet
Hit == [has_url : BOOLEAN, body : {<<>>, SnippetA}, page : WebPages]

Hits == {h \in Hit : h.has_url \/ h.page.status = "neterr"}

HitLists == UNION {[1..n -> Hits] : n \in 0..MaxHits}

\* What sumy does with a non-empty text: the tokenizer or the ranker raises
\* (ok = FALSE), or the ranker keeps sentences from the head or the tail
Nlp == [ok : BOOLEAN, rank : {"head", "tail"}]

Nlps == {n \in Nlp : n.ok \/ n.rank = "head"}

\* Result of a call that may raise
Ok(v) == [raised |-> FALSE, value |-> v]

Raised == [raised |-> TRUE, value |-> <<>>]

---------------------------------------------------------------------------
(* Helpers of app.py *)

Min(a, b) == IF a <= b THEN a ELSE b

\* extract_text_from_pdf (app.py:63-70): no page's failure is caught
RECURSIVE PdfPagesText(_, _)
PdfPagesText(pages, acc) ==
    IF pages = <<>> THEN Ok(Join(acc, NL))
    ELSE IF ~Head(pages).ok THEN Raised
    ELSE PdfPagesText(Tail(pages),
                      IF Head(pages).t # <<>> THEN Append(acc, Head(pages).t) ELSE acc)

extract_text_from_pdf(pdf) ==
    IF ~pdf.readable THEN Raised ELSE PdfPagesText(pdf.pages, <<>>)

\* extract_text_from_pdf on the PDFs an upload can be: the text, or that it
\* raised and whether on a page of a document that did open
PdfReadOf(pdf) ==
    LET r == extract_text_from_pdf(pdf)
    IN  [raised |-> r.raised, value |-> r.value,
         events |-> IF ~r.raised THEN {}
                    ELSE IF pdf.readable THEN {"pdf_failed", "page_failed"}
                    ELSE {"pdf_failed"}]

PdfReads == {PdfReadOf(pdf) : pdf \in Pdfs}

\* extract_text_from_url (app.py:72-83): only the GET is inside the try
MAX_CHARS == 20000

extract_text_from_url(page) ==
    IF page.status = "neterr" THEN Ok(<<>>)
    ELSE IF page.status = "raise" THEN Raised
    ELSE Ok(SubSeq(page.t, 1, Min(MAX_CHARS, Len(page.t))))

\* The sentence tokenizer: a sentence ends after "." and at a line break
RECURSIVE CutSentences(_, _, _)
CutSentences(s, cur, acc) ==
    LET flush == IF Strip(cur) = <<>> THEN acc ELSE Append(acc, Strip(cur))
    IN  IF s = <<>> THEN flush
        ELSE IF Head(s) = "\n" THEN CutSentences(Tail(s), <<>>, flush)
        ELSE IF Head(s) \in {".", "?", "!"}
             THEN CutSentences(Tail(s), <<>>,
                               IF Strip(cur) = <<>> THEN acc
                               ELSE Append(acc, Strip(cur) \o <<Head(s)>>))
        ELSE CutSentences(Tail(s), Append(cur, Head(s)), acc)

Sentences(text) == CutSentences(text, <<>>, <<>>)

\* TextRankSummarizer()(document, count): count sentences at most, in
\* document order
TextRank(sents, count, rank) ==
    LET k == Min(count, Len(sents))
    IN  IF rank = "head" THEN SubSeq(sents, 1, k)
        ELSE SubSeq(sents, Len(sents) - k + 1, Len(sents))

\* summarize_text (app.py:85-92)
summarize_text(text, sentences_count, nlp) ==
    IF text = <<>> THEN Ok(<<>>)
    ELSE IF ~nlp.ok THEN Raised
    ELSE Ok(Join(TextRank(Sentences(text), sentences_count, nlp.rank), NL))

\* number of lines of a string, as len(s.split("\n")) counts them; none for ""
Lines(s) ==
    IF s = <<>> THEN 0 ELSE 1 + Cardinality({i \in 1..Len(s) : s[i] = "\n"})

---------------------------------------------------------------------------
(* The generators and the template filler *)

\* s.split(ch): the pieces between the occurrences of ch, empty ones kept
RECURSIVE SplitOn(_, _, _, _)
SplitOn(s, ch, cur, acc) ==
    IF s = <<>> THEN Append(acc, cur)
    ELSE IF Head(s) = ch THEN SplitOn(Tail(s), ch, <<>>, Append(acc, cur))
    ELSE SplitOn(Tail(s), ch, Append(cur, Head(s)), acc)

Split(s, ch) == SplitOn(s, ch, <<>>, <<>>)

\* s.rstrip(ch)
RECURSIVE RStripChar(_, _)
RStripChar(s, ch) ==
    IF s = <<>> \/ s[Len(s)] # ch THEN s ELSE RStripChar(SubSeq(s, 1, Len(s) - 1), ch)

\* len(s.split()): the runs of characters that are not white space
WordCount(s) ==
    Cardinality({i \in 1..Len(s) : ~IsSpace(s[i]) /\ (i = 1 \/ IsSpace(s[i - 1]))})

KW_ABLE_TO == <<"a", "b", "l", "e", " ", "t", "o">>
KW_WILL == <<"w", "i", "l", "l">>
KW_UNDERSTAND == <<"u", "n", "d", "e", "r", "s", "t", "a", "n", "d">>
KW_LEARN == <<"l", "e", "a", "r", "n">>
KW_IDENTIFY == <<"i", "d", "e", "n", "t", "i", "f", "y">>
KW_DESCRIBE == <<"d", "e", "s", "c", "r", "i", "b", "e">>

\* app.py:104
KEYWORDS == {KW_ABLE_TO, KW_WILL, KW_UNDERSTAND, KW_LEARN, KW_IDENTIFY, KW_DESCRIBE}

\* "U+2022" stands for the one character of that code point, the bullet
BULLET == <<"U+2022", " ">>
OBJECTIVES_FALLBACK == <<"U+2022", " ", "O", "b", "j", "e", "c", "t", "i", "v", "e", " ", "1", "\n", "U+2022", " ", "O", "b", "j", "e", "c", "t", "i", "v", "e", " ", "2">>

\* app.py:99-105, the loop over text.split(".")
RECURSIVE Candidates(_, _)
Candidates(pieces, acc) ==
    IF pieces = <<>> THEN acc
    ELSE LET s == Strip(Head(pieces))
             sl == Lower(s)
         IN  Candidates(Tail(pieces),
                        IF s # <<>> /\ \E k \in KEYWORDS : Contains(sl, k)
                        THEN Append(acc, Strip(s)) ELSE acc)

Bullets(items) == Join([i \in 1..Len(items) |-> BULLET \o items[i]], NL)

NonBlank(s) == Strip(s) # <<>>

\* extract_objectives_from_text without the cap of max_points
extract_objectives_uncapped(text, max_points, nlp) ==
    LET candidates == Candidates(Split(text, "."), <<>>)
        summ == summarize_text(text, max_points, nlp)
        lines == SelectSeq(Split(summ.value, "\n"), NonBlank)
    IN  IF candidates # <<>> THEN Ok(Bullets(candidates))
        ELSE IF summ.raised THEN Raised
        ELSE IF summ.value # <<>>
        THEN Ok(Bullets([i \in 1..Len(lines) |-> Strip(lines[i])]))
        ELSE Ok(OBJECTIVES_FALLBACK)

\* extract_objectives_from_text (app.py:94-112)
extract_objectives_from_text(text, max_points, nlp) ==
    LET candidates == Candidates(Split(text, "."), <<>>)
        summ == summarize_text(text, max_points, nlp)
        lines == SelectSeq(Split(summ.value, "\n"), NonBlank)
    IN  IF candidates # <<>>
        THEN Ok(Bullets(SubSeq(candidates, 1, Min(max_points, Len(candidates)))))
        ELSE IF summ.raised THEN Raised
        ELSE IF summ.value # <<>>
        THEN Ok(Bullets([i \in 1..Len(lines) |-> Strip(lines[i])]))
        ELSE Ok(OBJECTIVES_FALLBACK)

Q_MAIN_IDEA == <<"Q", "1", ".", " ", "W", "h", "a", "t", " ", "i", "s", " ", "t", "h", "e", " ", "m", "a", "i", "n", " ", "i", "d", "e", "a", " ", "o", "f", " ", "t", "h", "e", " ", "c", "h", "a", "p", "t", "e", "r", "?">>
Q_KEY_POINTS == <<"Q", "2", ".", " ", "L", "i", "s", "t", " ", "t", "w", "o", " ", "k", "e", "y", " ", "p", "o", "i", "n", "t", "s", ".">>
EXPLAIN == <<".", " ", "E", "x", "p", "l", "a", "i", "n", ":", " ">>
DIGITS == <<"0", "1", "2", "3", "4", "5", "6", "7", "8", "9">>

\* str(n) for one digit
Str(n) == <<DIGITS[n + 1]>>

\* max_q=4 (app.py:123)
MAX_Q == 4

\* app.py:128: s.strip().rstrip(".")
Trimmed(s) == RStripChar(Strip(s), ".")

\* app.py:127-131, the loop over the summary lines from the i-th on
RECURSIVE Questions(_, _, _)
Questions(parts, i, qs) ==
    IF i > Len(parts) THEN qs
    ELSE LET s == Trimmed(parts[i])
         IN  Questions(parts, i + 1,
                       IF WordCount(s) < 3 THEN qs
                       ELSE Append(qs, <<"Q">> \o Str(i) \o EXPLAIN \o s \o <<"?">>))

\* generate_assessment_questions (app.py:123-134)
generate_assessment_questions(text, max_q, nlp) ==
    LET summary == summarize_text(text, 4, nlp)
        all == Split(summary.value, "\n")
        qs == Questions(SubSeq(all, 1, Min(max_q, Len(all))), 1, <<>>)
    IN  IF summary.raised THEN Raised
        ELSE Ok(Join(IF qs = <<>> THEN <<Q_MAIN_IDEA, Q_KEY_POINTS>> ELSE qs, NL))

KEY_TITLE == <<"{", "{", "C", "h", "a", "p", "t", "e", "r", "T", "i", "t", "l", "e", "}", "}">>
KEY_SUMMARY == <<"{", "{", "S", "u", "m", "m", "a", "r", "y", "}", "}">>
KEY_OBJECTIVES == <<"{", "{", "L", "e", "a", "r", "n", "i", "n", "g", "O", "b", "j", "e", "c", "t", "i", "v", "e", "s", "}", "}">>
KEY_ACTIVITIES == <<"{", "{", "A", "c", "t", "i", "v", "i", "t", "i", "e", "s", "}", "}">>
KEY_ASSESSMENT == <<"{", "{", "A", "s", "s", "e", "s", "s", "m", "e", "n", "t", "}", "}">>
KEY_REFERENCES == <<"{", "{", "R", "e", "f", "e", "r", "e", "n", "c", "e", "s", "}", "}">>

\* the keys of the replacements dict in its order (app.py:142-149)
REPLACEMENT_KEYS ==
    <<KEY_TITLE, KEY_SUMMARY, KEY_OBJECTIVES, KEY_ACTIVITIES, KEY_ASSESSMENT, KEY_REFERENCES>>

\* the arguments of fill_template_and_send in the order of the keys
Replacements(v) ==
    <<v.title, v.summary, v.objectives, v.activities, v.assessment, v.references>>

StartsWith(s, prefix) == Len(s) >= Len(prefix) /\ SubSeq(s, 1, Len(prefix)) = prefix

\* s.replace(k, v), k not empty: left to right, occurrences not overlapping
RECURSIVE Replace(_, _, _)
Replace(s, k, v) ==
    IF s = <<>> THEN <<>>
    ELSE IF StartsWith(s, k) THEN v \o Replace(SubSeq(s, Len(k) + 1, Len(s)), k, v)
    ELSE <<Head(s)>> \o Replace(Tail(s), k, v)

\* app.py:154-157, the loop over replacements.items() from the i-th key on
RECURSIVE ReplaceFrom(_, _, _)
ReplaceFrom(text, values, i) ==
    IF i > Len(REPLACEMENT_KEYS) THEN text
    ELSE ReplaceFrom(IF Contains(text, REPLACEMENT_KEYS[i])
                     THEN Replace(text, REPLACEMENT_KEYS[i], values[i])
                     ELSE text,
                     values, i + 1)

\* the text of one paragraph or cell after the loop (app.py:153-163)
fill_text(text, v) == ReplaceFrom(text, Replacements(v), 1)

---------------------------------------------------------------------------
(* Sessions *)

NoPath == [dir |-> 0, name |-> <<>>]

\* DEFAULT_TEMPLATE_PATH (app.py:24), a path no upload can have
DEFAULT_TEMPLATE_PATH == [dir |-> 0, name |-> <<"S", ".", "d", "o", "c", "x">>]

\* tempfile.mkdtemp() + file name: the directory is the uploading chat's own
LocalPath(c, fname) == [dir |-> c, name |-> fname]

EmptyTmp == [grade |-> <<>>, subject |-> <<>>, chapter |-> <<>>]

\* No entry in SESS for the chat
NoSession ==
    [exists |-> FALSE, state |-> "none", template_path |-> NoPath,
     has_tmp |-> FALSE, tmp |-> EmptyTmp]

\* SESS.setdefault(chat_id, {}): an empty dict, no "state" key yet
EmptySession == [NoSession EXCEPT !.exists = TRUE]

States == {"idle", "await_text", "await_grade", "await_subject", "await_chapter"}

Funnel == {"await_grade", "await_subject", "await_chapter"}

---------------------------------------------------------------------------
(* One webhook call, statement by statement.  A call is a record t: its    *)
(* program counter (named by the line it stands at), its local variables   *)
(* and obs, what it has done so far.  Each Lnnn operator runs the code     *)
(* from that line up to the next access to SESS and returns the possible   *)
(* results as a set of [t, S]: the collaborators (Telegram, the search,    *)
(* sumy, PyPDF2, python-docx) answer or raise.                             *)

NewObs ==
    [msgs |-> <<>>, events |-> {}, runs |-> 0, searches |-> 0, fills |-> 0,
     docs |-> 0, query |-> <<>>, title |-> <<>>, source |-> <<>>,
     template |-> NoPath, fault |-> "none"]

NewCall(msg) ==
    [pc |-> "L178", ret |-> "done", msg |-> msg, state |-> "none",
     grade |-> <<>>, subject |-> <<>>, chapter |-> <<>>,
     text |-> <<>>, title |-> <<>>, obs |-> NewObs]

Final(t) == t.pc \in {"done", "fault"}

Note(t, e) == [t EXCEPT !.obs.events = @ \cup {e}]

\* an exception nobody catches: Flask answers 500
Raise(t, kind) == [t EXCEPT !.pc = "fault", !.obs.fault = kind]

With(ts, S) == {[t |-> x, S |-> S] : x \in ts}

\* send_message (app.py:45-49): requests.post may raise
send_message(t, tag, pcNext) ==
    {[t EXCEPT !.pc = pcNext, !.obs.msgs = Append(@, tag)], Raise(t, "send_message")}

\* The four pipeline lines (218-221, 240-243, 263-266, 305-308) on t.text,
\* then on to fill_template_and_send.  An optional text of <<>> is None.
Pipeline(t, text, title, ret) ==
    LET run == [t EXCEPT !.pc = "L137", !.ret = ret, !.text = Fmt(text), !.title = title,
                         !.obs.runs = @ + 1, !.obs.source = text,
                         !.obs.title = <<title>>]
    IN  IF text = <<>> THEN {Raise(t, "AttributeError")}
        ELSE UNION {IF summarize_text(text[1], 6, nlp).raised
                    THEN {Raise(t, "summarize_text")}
                    ELSE {run} : nlp \in Nlps}

\* app.py:294-304, the loop over hits[:3]
HITS_USED == 3

RECURSIVE FetchTop(_, _)
FetchTop(hits, acc) ==
    IF hits = <<>> THEN Ok(acc)
    ELSE LET h == Head(hits)
             r == IF h.has_url THEN extract_text_from_url(h.page) ELSE Ok(h.body)
         IN  IF r.raised THEN Raised
             ELSE FetchTop(Tail(hits),
                           IF r.value # <<>> THEN Append(acc, r.value) ELSE acc)

\* app.py:304
big_text(combined_texts, hits) ==
    OrElse(Join(combined_texts, PAR_SEP),
           Join([i \in 1..Len(hits) |-> hits[i].body], SP))

\* what the lookup gave, for the record
LookupEvents(hits) ==
    (IF hits = <<>> THEN {"zero_results"} ELSE {})
    \cup (IF \E i \in 1..Min(HITS_USED, Len(hits)) :
               hits[i].has_url /\ hits[i].page.status # "ok"
          THEN {"fetch_failed"} ELSE {})
    \cup (IF /\ hits # <<>>
             /\ \A i \in 1..Len(hits) :
                  /\ hits[i].body = <<>>
                  /\ hits[i].has_url => hits[i].page.status # "ok"
          THEN {"no_text"} ELSE {})

\* app.py:178-183
L178(t, S) ==
    IF ~t.msg.has_message THEN With({[t EXCEPT !.pc = "done"]}, S)
    ELSE IF ~t.msg.has_chat THEN With({Raise(t, "KeyError")}, S)
    ELSE {[t |-> [t EXCEPT !.pc = "L185"],
           S |-> IF S[t.msg.chat].exists THEN S
                 ELSE [S EXCEPT ![t.msg.chat] = EmptySession]]}

\* app.py:248-258 and 316
TextBranch(t) ==
    LET txt == Strip(t.msg.text)
    IN  IF ~t.msg.has_text THEN {[t EXCEPT !.pc = "done"]}
        ELSE IF txt = PASTE_TEXT THEN send_message(t, "paste_prompt", "L253")
        ELSE IF txt = ASK_BOT THEN {[t EXCEPT !.pc = "L256"]}
        ELSE {[t EXCEPT !.pc = "L260"]}

\* app.py:227-245
PhotoBranch(t, ocr) ==
    IF ~t.msg.has_photo THEN TextBranch(t)
    ELSE IF ~ocr
    THEN send_message(Note(t, "ocr_unavailable"), "ocr_unavailable", "done")
    ELSE UNION {send_message(Note(t, e), "ocr_failed", "done")
                : e \in {"download_failed", "ocr_failed"}}
         \cup UNION {Pipeline(t, <<text>>, TITLE_SCAN, "done") : text \in {<<>>, PageA}}

\* app.py:193-224
DocumentBranch(t, ocr) ==
    LET fname == IF t.msg.file_name = <<>> THEN DEFAULT_NAME ELSE t.msg.file_name[1]
    IN  IF ~t.msg.has_document THEN PhotoBranch(t, ocr)
        ELSE send_message(Note(t, "download_failed"), "download_failed", "done")
             \cup
             (IF EndsWith(Lower(fname), DOCX_EXT) THEN {[t EXCEPT !.pc = "L206"]}
              ELSE IF EndsWith(Lower(fname), PDF_EXT)
              THEN UNION {
                     IF r.raised
                     THEN send_message([t EXCEPT !.obs.events = @ \cup r.events],
                                       "pdf_failed", "done")
                     ELSE Pipeline(t, <<r.value>>, TITLE_PDF, "done")
                     : r \in PdfReads}
              ELSE PhotoBranch(t, ocr))

\* app.py:185-188, then the branches
L185(t, S) ==
    With(IF t.msg.has_text /\ Strip(t.msg.text) = HI_RISE
         THEN send_message(t, "menu", "L189")
         ELSE DocumentBranch(t, OCR_AVAILABLE),
         S)

SetState(S, c, st) == [S EXCEPT ![c].state = st]

\* app.py:189
L189(t, S) == {[t |-> [t EXCEPT !.pc = "done"], S |-> SetState(S, t.msg.chat, "idle")]}

\* app.py:206-208 with the template kept for every chat
L206_shared(t, S) ==
    LET fname == IF t.msg.file_name = <<>> THEN DEFAULT_NAME ELSE t.msg.file_name[1]
    IN  With(send_message(t, "template_saved", "done"),
             [c \in DOMAIN S |->
                 [S[c] EXCEPT !.template_path = LocalPath(t.msg.chat, fname)]])

\* app.py:206-208 with the conversation reset as well
L206_resets(t, S) ==
    LET fname == IF t.msg.file_name = <<>> THEN DEFAULT_NAME ELSE t.msg.file_name[1]
    IN  With(send_message(t, "template_saved", "done"),
             [S EXCEPT ![t.msg.chat].template_path = LocalPath(t.msg.chat, fname),
                       ![t.msg.chat].state = "idle"])

\* app.py:206-208
L206(t, S) ==
    LET fname == IF t.msg.file_name = <<>> THEN DEFAULT_NAME ELSE t.msg.file_name[1]
    IN  With(send_message(t, "template_saved", "done"),
             [S EXCEPT ![t.msg.chat].template_path = LocalPath(t.msg.chat, fname)])

\* app.py:253-254
L253(t, S) ==
    {[t |-> [t EXCEPT !.pc = "done"], S |-> SetState(S, t.msg.chat, "await_text")]}

\* app.py:256-258
L256(t, S) ==
    With(send_message(t, "ask_grade", "done"), SetState(S, t.msg.chat, "await_grade"))

\* app.py:260-270, 275, 280, 315 with the pipeline run on a text in idle too
L260_eager(t, S) ==
    LET state == S[t.msg.chat].state
        u == [t EXCEPT !.state = state]
    IN  With(IF state = "await_grade" THEN {[u EXCEPT !.pc = "L271"]}
             ELSE IF state = "await_subject" THEN {[u EXCEPT !.pc = "L276"]}
             ELSE IF state = "await_chapter" THEN {[u EXCEPT !.pc = "L281"]}
             ELSE Pipeline(u, <<Strip(t.msg.text)>>, TITLE_PASTE, "L268"),
             S)

\* app.py:260-270, 275, 280, 315
L260(t, S) ==
    LET state == S[t.msg.chat].state
        u == [t EXCEPT !.state = state]
    IN  With(IF state = "await_text"
             THEN Pipeline(u, <<Strip(t.msg.text)>>, TITLE_PASTE, "L268")
             ELSE IF state = "await_grade" THEN {[u EXCEPT !.pc = "L271"]}
             ELSE IF state = "await_subject" THEN {[u EXCEPT !.pc = "L276"]}
             ELSE IF state = "await_chapter" THEN {[u EXCEPT !.pc = "L281"]}
             ELSE send_message(u, "prompt", "done"),
             S)

\* app.py:268 written as a compare-and-set: idle only if the state is still
\* the one the call read at line 260
L268_checked(t, S) ==
    {[t |-> [t EXCEPT !.pc = "done"],
      S |-> IF S[t.msg.chat].state = t.state THEN SetState(S, t.msg.chat, "idle") ELSE S]}

\* app.py:268
L268(t, S) == {[t |-> [t EXCEPT !.pc = "done"], S |-> SetState(S, t.msg.chat, "idle")]}

\* app.py:271 with the grade not kept
L271_drops(t, S) == {[t |-> [t EXCEPT !.pc = "L272"], S |-> S]}

\* app.py:271
L271(t, S) ==
    {[t |-> [t EXCEPT !.pc = "L272"],
      S |-> [S EXCEPT ![t.msg.chat].has_tmp = TRUE,
                      ![t.msg.chat].tmp =
                          [EmptyTmp EXCEPT !.grade = <<Strip(t.msg.text)>>]]]}

\* app.py:272-274
L272(t, S) ==
    With(send_message(t, "ask_subject", "done"), SetState(S, t.msg.chat, "await_subject"))

\* app.py:276 without the assignment
L276_skip(t, S) ==
    IF ~S[t.msg.chat].has_tmp THEN With({Raise(t, "KeyError")}, S)
    ELSE With({[t EXCEPT !.pc = "L277"]}, S)

\* app.py:276
L276(t, S) ==
    IF ~S[t.msg.chat].has_tmp THEN With({Raise(t, "KeyError")}, S)
    ELSE {[t |-> [t EXCEPT !.pc = "L277"],
           S |-> [S EXCEPT ![t.msg.chat].tmp.subject = <<Strip(t.msg.text)>>]]}

\* app.py:277-279 with the state left where it was
L277_stay(t, S) ==
    With(send_message(t, "ask_chapter", "done"), SetState(S, t.msg.chat, "await_subject"))

\* app.py:277-279
L277(t, S) ==
    With(send_message(t, "ask_chapter", "done"), SetState(S, t.msg.chat, "await_chapter"))

\* app.py:281
L281(t, S) ==
    IF ~S[t.msg.chat].has_tmp THEN With({Raise(t, "KeyError")}, S)
    ELSE {[t |-> [t EXCEPT !.pc = "L283"],
           S |-> [S EXCEPT ![t.msg.chat].tmp.chapter = <<Strip(t.msg.text)>>]]}

\* app.py:283
L283(t, S) ==
    IF ~S[t.msg.chat].has_tmp THEN With({Raise(t, "KeyError")}, S)
    ELSE With({[t EXCEPT !.pc = "L284", !.grade = S[t.msg.chat].tmp.grade]}, S)

\* app.py:284
L284(t, S) ==
    IF ~S[t.msg.chat].has_tmp THEN With({Raise(t, "KeyError")}, S)
    ELSE With({[t EXCEPT !.pc = "L285", !.subject = S[t.msg.chat].tmp.subject]}, S)

\* app.py:286 with grade and subject the other way round
Query_swapped(grade, subject, chapter) ==
    Fmt(subject) \o SP \o Fmt(grade) \o SP \o Fmt(chapter) \o QUERY_SUFFIX

\* app.py:286
Query(grade, subject, chapter) ==
    Fmt(grade) \o SP \o Fmt(subject) \o SP \o Fmt(chapter) \o QUERY_SUFFIX

\* app.py:310
Title(chapter, subject) == Fmt(chapter) \o <<" ", "(">> \o Fmt(subject) \o <<")">>

\* app.py:294-304 on the hits the search gave: whether a fetch raised, and
\* big_text
LookupOf(hits) ==
    LET r == FetchTop(SubSeq(hits, 1, Min(HITS_USED, Len(hits))), <<>>)
    IN  [raised |-> r.raised, events |-> LookupEvents(hits),
         big |-> IF r.raised THEN <<>> ELSE big_text(r.value, hits)]

Lookups == {LookupOf(hits) : hits \in HitLists}

\* app.py:305-310
AfterSearch(t, lk) ==
    LET u == [t EXCEPT !.obs.events = @ \cup lk.events]
    IN  IF lk.raised THEN {Raise(u, "extract_text_from_url")}
        ELSE Pipeline(u, IF lk.big # <<>> THEN <<lk.big>> ELSE t.chapter,
                      Title(t.chapter, t.subject), "L311")

\* app.py:285-291, then the loop and the pipeline
L285(t, S) ==
    IF ~S[t.msg.chat].has_tmp THEN With({Raise(t, "KeyError")}, S)
    ELSE
    LET u == [t EXCEPT !.chapter = S[t.msg.chat].tmp.chapter]
        query == Query(u.grade, u.subject, u.chapter)
        said == [u EXCEPT !.obs.msgs = Append(@, "searching"),
                          !.obs.query = <<query>>, !.obs.searches = @ + 1]
        failed == [Note(said, "search_failed") EXCEPT
                       !.obs.msgs = Append(@, "search_failed")]
    IN  With({Raise(u, "send_message"), Raise(Note(said, "search_failed"), "send_message")}
             \cup AfterSearch(failed, LookupOf(<<>>))
             \cup UNION {AfterSearch(said, lk) : lk \in Lookups},
             S)

\* fill_template_and_send with the missing template thrown, not reported
L137_throws(t, S) ==
    LET own == S[t.msg.chat].template_path
        template_path == IF own # NoPath THEN own ELSE DEFAULT_TEMPLATE_PATH
        u == [t EXCEPT !.obs.fills = @ + 1, !.obs.template = template_path]
        sent == [u EXCEPT !.obs.docs = @ + 1]
    IN  With({Raise(Note(u, "template_missing"), "TemplateNotFound")}
             \cup {Raise(u, "Document"), Raise(u, "sendDocument")}
             \cup send_message(sent, "generated", t.ret),
             S)

\* fill_template_and_send (app.py:136-169); os.path.exists answers either
\* way, for the default path and for an uploaded file alike
L137(t, S) ==
    LET own == S[t.msg.chat].template_path
        template_path == IF own # NoPath THEN own ELSE DEFAULT_TEMPLATE_PATH
        u == [t EXCEPT !.obs.fills = @ + 1, !.obs.template = template_path]
        sent == [u EXCEPT !.obs.docs = @ + 1]
    IN  With(send_message(Note(u, "template_missing"), "template_missing", t.ret)
             \cup {Raise(u, "Document"), Raise(u, "sendDocument")}
             \cup send_message(sent, "generated", t.ret),
             S)

\* app.py:311
L311(t, S) == {[t |-> [t EXCEPT !.pc = "done"], S |-> SetState(S, t.msg.chat, "idle")]}

\* One step of a call
Step(t, S) ==
    CASE t.pc = "L178" -> L178(t, S)
      [] t.pc = "L185" -> L185(t, S)
      [] t.pc = "L189" -> L189(t, S)
      [] t.pc = "L206" -> L206(t, S)
      [] t.pc = "L253" -> L253(t, S)
      [] t.pc = "L256" -> L256(t, S)
      [] t.pc = "L260" -> L260(t, S)
      [] t.pc = "L268" -> L268(t, S)
      [] t.pc = "L271" -> L271(t, S)
      [] t.pc = "L272" -> L272(t, S)
      [] t.pc = "L276" -> L276(t, S)
      [] t.pc = "L277" -> L277(t, S)
      [] t.pc = "L281" -> L281(t, S)
      [] t.pc = "L283" -> L283(t, S)
      [] t.pc = "L284" -> L284(t, S)
      [] t.pc = "L285" -> L285(t, S)
      [] t.pc = "L137" -> L137(t, S)
      [] t.pc = "L311" -> L311(t, S)
      [] OTHER -> {}

\* A whole call, when nothing else touches SESS meanwhile
RECURSIVE RunAll(_)
RunAll(cfgs) ==
    IF \A x \in cfgs : Final(x.t) THEN cfgs
    ELSE RunAll(UNION {IF Final(x.t) THEN {x} ELSE Step(x.t, x.S) : x \in cfgs})

webhook(msg, S) == RunAll({[t |-> NewCall(msg), S |-> S]})

---------------------------------------------------------------------------
(* The server handling one update at a time *)

\* no text sent to the funnel yet (stale: the session held a subject from an
\* earlier flow when await_grade was entered)
NoFlow == [grade |-> <<>>, subject |-> <<>>, chapter |-> <<>>, stale |-> FALSE]

NoLast == [msg |-> NoMessage, pre |-> "none", resp |-> "none", obs |-> NewObs]

Threads == {1, 2}

\* base: SESS when the call began; first: it began before the other one;
\* over: the other call was running at some time while this one was;
\* late: it finished after the other one
NoThreads ==
    [i \in Threads |->
        [busy |-> FALSE, served |-> FALSE, t |-> NewCall(NoMessage),
         base |-> [c \in Chats |-> NoSession],
         first |-> FALSE, over |-> FALSE, late |-> FALSE]]

NoScript ==
    [prefix |-> 0, texts |-> <<>>, states |-> <<>>, ok |-> TRUE,
     runs |-> 0, searches |-> 0, fills |-> 0, query |-> <<>>]

NoValues ==
    [title |-> <<>>, summary |-> <<>>, objectives |-> <<>>, activities |-> <<>>,
     assessment |-> <<>>, references |-> <<>>]

NoFn == [op |-> "none", text |-> <<>>, count |-> 0, nlp |-> [ok |-> TRUE, rank |-> "head"],
         values |-> NoValues, result |-> Ok(<<>>)]

Init ==
    /\ SESS = [c \in Chats |-> NoSession]
    /\ OCR_AVAILABLE \in BOOLEAN
    /\ last = NoLast
    /\ th = NoThreads
    /\ step = 0
    /\ script = NoScript
    /\ fn = NoFn
    /\ flow = [c \in Chats |-> NoFlow]

\* the answer of a finished call: jsonify({"ok": True}) or Flask's 500
Response(t) == IF t.pc = "done" THEN "ok" ELSE "fault"

Outcome(msg, t, S) ==
    [msg |-> msg,
     pre |-> IF msg.has_chat THEN S[msg.chat].state ELSE "none",
     resp |-> Response(t),
     obs |-> t.obs]

\* The texts chat c sent to the funnel since it last entered await_grade,
\* told from the events alone: the state before, the message, the state after
FlowAfter(f, msg, sess, after) ==
    LET txt == <<Strip(msg.text)>>
        before == sess.state
    IN  IF after \notin Funnel THEN [NoFlow EXCEPT !.stale = f.stale]
        ELSE IF msg.has_text /\ Strip(msg.text) = ASK_BOT
        THEN [NoFlow EXCEPT !.stale = sess.has_tmp /\ sess.tmp.subject # <<>>]
        ELSE IF ~msg.has_text \/ IsCommand(msg.text) THEN f
        ELSE IF before = "await_grade" THEN [f EXCEPT !.grade = txt]
        ELSE IF before = "await_subject" THEN [f EXCEPT !.subject = txt]
        ELSE IF before = "await_chapter" THEN [f EXCEPT !.chapter = txt]
        ELSE f

FlowNext(msg, S) ==
    IF msg.has_chat
    THEN [flow EXCEPT ![msg.chat] = FlowAfter(@, msg, SESS[msg.chat], S[msg.chat].state)]
    ELSE flow

Serve(msg) ==
    \E r \in webhook(msg, SESS) :
        /\ SESS' = r.S
        /\ last' = Outcome(msg, r.t, SESS)
        /\ flow' = FlowNext(msg, r.S)

\* no call is running and the last answer has gone out
Idle == last = NoLast /\ th = NoThreads

HandleText(c, text) ==
    /\ Idle /\ step = 0
    /\ Serve(TextMsg(c, text))
    /\ UNCHANGED <<OCR_AVAILABLE, th, step, script, fn>>

HandleDocument(c, name) ==
    /\ Idle /\ step = 0
    /\ Serve(DocMsg(c, name))
    /\ UNCHANGED <<OCR_AVAILABLE, th, step, script, fn>>

HandlePhoto(c) ==
    /\ Idle /\ step = 0
    /\ Serve(PhotoMsg(c))
    /\ UNCHANGED <<OCR_AVAILABLE, th, step, script, fn>>

\* an update with none of text, document, photo; with no chat; with no message
HandleOther(msg) ==
    /\ Idle /\ step = 0
    /\ Serve(msg)
    /\ UNCHANGED <<OCR_AVAILABLE, th, step, script, fn>>

\* Flask sends the answer of the finished call; the next update is read
Respond ==
    /\ last # NoLast
    /\ th = NoThreads
    /\ step = 0
    /\ last' = NoLast
    /\ UNCHANGED <<SESS, OCR_AVAILABLE, th, step, script, fn, flow>>

Next ==
    \/ Respond
    \/ \E c \in Callers, text \in Texts : HandleText(c, text)
    \/ \E c \in Callers, name \in FileNames : HandleDocument(c, name)
    \/ \E c \in Callers : HandlePhoto(c)
    \/ \E msg \in {OtherMsg(c) : c \in Callers} \cup {NoChatMsg, NoMessage} : HandleOther(msg)

Spec == Init /\ [][Next]_vars

---------------------------------------------------------------------------
(* The find-a-lesson conversation: after some earlier updates, chat        *)
(* ScriptChat sends the start command, "Ask Bot to Find Lesson", and three *)
(* texts g, s, c; the updates are handled one at a time.                   *)

Updates ==
    {TextMsg(c, text) : c \in Callers, text \in Texts}
    \cup {DocMsg(c, name) : c \in Callers, name \in FileNames}
    \cup {PhotoMsg(c) : c \in Callers}

\* an update served before the script or the overlapping calls start
Earlier(msg) ==
    /\ step = 0 /\ th = NoThreads /\ script.prefix < MaxPrefix
    /\ \E r \in webhook(msg, SESS) :
           /\ SESS' = r.S
           /\ flow' = FlowNext(msg, r.S)
    /\ script' = [script EXCEPT !.prefix = @ + 1]
    /\ UNCHANGED <<OCR_AVAILABLE, last, th, step, fn>>

ScriptChat == CHOOSE c \in Callers : TRUE

ScriptLen == Len(<<HI_RISE, ASK_BOT, "g", "s", "c">>)

ScriptEvent(k) ==
    IF k = 0 THEN {HI_RISE} ELSE IF k = 1 THEN {ASK_BOT} ELSE ScriptTexts

\* the next update of the script; the script stops at a call that is not
\* answered OK
ScriptStep ==
    /\ step < ScriptLen /\ script.ok
    /\ \E text \in ScriptEvent(step) :
           /\ Serve(TextMsg(ScriptChat, text))
           /\ script' = [script EXCEPT
                   !.texts = Append(@, text),
                   !.states = Append(@, SESS'[ScriptChat].state),
                   !.ok = last'.resp = "ok",
                   !.runs = @ + last'.obs.runs,
                   !.searches = @ + last'.obs.searches,
                   !.fills = @ + last'.obs.fills,
                   !.query = IF last'.obs.query # <<>> THEN last'.obs.query ELSE @]
    /\ step' = step + 1
    /\ UNCHANGED <<OCR_AVAILABLE, th, fn>>

NextScript ==
    \/ \E msg \in Updates : Earlier(msg)
    \/ ScriptStep

SpecScript == Init /\ [][NextScript]_vars

---------------------------------------------------------------------------
(* Two chats talking to the server, one update at a time *)

ChatTexts == {HI_RISE, PASTE_TEXT, TxtGrade}

NextChats ==
    \/ Respond
    \/ \E c \in Chats, text \in ChatTexts : HandleText(c, text)
    \/ \E c \in Chats : HandleDocument(c, <<FnTemplate>>)

SpecChats == Init /\ [][NextChats]_vars

---------------------------------------------------------------------------
(* The helpers on their own *)

Alphabet == {"a", ".", " ", "\n"}

FnTexts == UNION {[1..n -> Alphabet] : n \in 0..MaxLen}

\* one call of the helper
Summarize(text, count, nlp) ==
    /\ fn.op = "none"
    /\ fn' = [NoFn EXCEPT !.op = "summarize_text", !.text = text, !.count = count,
                          !.nlp = nlp, !.result = summarize_text(text, count, nlp)]
    /\ UNCHANGED <<SESS, OCR_AVAILABLE, last, th, step, script, flow>>

RECURSIVE Flatten(_)
Flatten(tokens) == IF tokens = <<>> THEN <<>> ELSE Head(tokens) \o Flatten(Tail(tokens))

\* the texts made of at most MaxTokens of the given tokens
TextsOf(tokens) == {Flatten(ts) : ts \in UNION {[1..n -> tokens] : n \in 0..MaxTokens}}

TokWill == <<"W", "i", "l", "l", " ">>
TokSky == <<"s", "k", "y", " ">>
TxtExample == <<"S", "t", "u", "d", "e", "n", "t", "s", " ", "w", "i", "l", "l", " ", "u", "n", "d", "e", "r", "s", "t", "a", "n", "d", " ", "f", "r", "a", "c", "t", "i", "o", "n", "s", ".", " ", "T", "h", "e", " ", "s", "k", "y", " ", "i", "s", " ", "b", "l", "u", "e", ".">>

ObjTexts == TextsOf({TokWill, TokSky, <<".">>}) \cup {TxtExample}

Objectives(text, max_points, nlp) ==
    /\ fn.op = "none"
    /\ fn' = [NoFn EXCEPT !.op = "extract_objectives_from_text", !.text = text,
                          !.count = max_points, !.nlp = nlp,
                          !.result = extract_objectives_from_text(text, max_points, nlp)]
    /\ UNCHANGED <<SESS, OCR_AVAILABLE, last, th, step, script, flow>>

AssessTexts == TextsOf({<<"w", " ">>, <<".">>, <<"?">>, <<"\n">>})

\* the callers pass no max_q (app.py:221, 243, 266, 308)
Assessment(text, nlp) ==
    /\ fn.op = "none"
    /\ fn' = [NoFn EXCEPT !.op = "generate_assessment_questions", !.text = text,
                          !.count = MAX_Q, !.nlp = nlp,
                          !.result = generate_assessment_questions(text, MAX_Q, nlp)]
    /\ UNCHANGED <<SESS, OCR_AVAILABLE, last, th, step, script, flow>>

\* paragraphs of a template, and field values some of which quote a placeholder
Paragraphs == TextsOf({KEY_SUMMARY, KEY_ASSESSMENT, <<"x">>})

FieldValues ==
    [title : {<<"T">>, KEY_SUMMARY},
     summary : {<<"s">>, KEY_ASSESSMENT, KEY_TITLE},
     objectives : {<<"o">>},
     activities : {<<"a">>},
     assessment : {<<"q">>, KEY_SUMMARY},
     references : {<<"r">>}]

Fill(text, v) ==
    /\ fn.op = "none"
    /\ fn' = [NoFn EXCEPT !.op = "fill_text", !.text = text, !.values = v,
                          !.result = Ok(fill_text(text, v))]
    /\ UNCHANGED <<SESS, OCR_AVAILABLE, last, th, step, script, flow>>

NextFn ==
    \/ \E text \in FnTexts, count \in 0..MaxCount, nlp \in Nlps : Summarize(text, count, nlp)
    \/ \E text \in ObjTexts, max_points \in 0..MaxCount, nlp \in Nlps :
          Objectives(text, max_points, nlp)
    \/ \E text \in AssessTexts, nlp \in Nlps : Assessment(text, nlp)
    \/ \E text \in Paragraphs, v \in FieldValues : Fill(text, v)

SpecFn == Init /\ [][NextFn]_vars

---------------------------------------------------------------------------
(* The threaded server (app.run, app.py:319, and any WSGI server with      *)
(* threads): two calls for the same chat run at once, each a sequence of   *)
(* steps, any interleaving.                                               *)

ConcTexts == {HI_RISE, PASTE_TEXT, ASK_BOT, TxtGrade}

ConcUpdates ==
    {TextMsg(c, text) : c \in Callers, text \in ConcTexts}
    \cup {DocMsg(c, <<FnTemplate>>) : c \in Callers}

Other(i) == CHOOSE j \in Threads : j # i

Begin(i, msg) ==
    /\ step = 0
    /\ ~th[i].busy /\ ~th[i].served
    /\ th' = [th EXCEPT
                 ![i] = [busy |-> TRUE, served |-> FALSE, t |-> NewCall(msg),
                         base |-> SESS,
                         first |-> ~th[Other(i)].busy /\ ~th[Other(i)].served,
                         over |-> th[Other(i)].busy,
                         late |-> FALSE],
                 ![Other(i)].over = @ \/ th[Other(i)].busy]
    /\ UNCHANGED <<SESS, OCR_AVAILABLE, last, step, script, fn, flow>>

Advance(i) ==
    /\ th[i].busy
    /\ \E r \in Step(th[i].t, SESS) :
           /\ SESS' = r.S
           /\ th' = [th EXCEPT ![i].t = r.t,
                               ![i].busy = ~Final(r.t),
                               ![i].served = Final(r.t),
                               ![i].late = Final(r.t) /\ th[Other(i)].served]
    /\ UNCHANGED <<OCR_AVAILABLE, last, step, script, fn, flow>>

NextConc ==
    \/ \E msg \in Updates : Earlier(msg)
    \/ \E i \in Threads, msg \in ConcUpdates : Begin(i, msg)
    \/ \E i \in Threads : Advance(i)

SpecConc == Init /\ [][NextConc]_vars

---------------------------------------------------------------------------
(* Properties of the serial server *)

\* a call has just finished for a chat
Called == last # NoLast /\ last.msg.has_chat

PlainText(msg) == msg.has_text /\ ~IsCommand(msg.text)

StateOf(c) == SESS[c].state

\* the call ran into one of the failures the handler knows, or into an
\* exception inside the pipeline or a collaborator
TopLevelFailure(o) ==
    \/ o.events \cap {"download_failed", "ocr_failed", "pdf_failed", "template_missing"} # {}
    \/ o.fault # "none"

\* C2: after a call that ended in a top-level failure the user has been told
\* and the session state is idle, whatever state it was in before.
C2_FailureResetsToIdle ==
    (Called /\ last.pre \in States \ {"idle"} /\ TopLevelFailure(last.obs))
        => /\ StateOf(last.msg.chat) = "idle"
           /\ last.obs.msgs # <<>>

\* C3: every call is answered with the OK response.
C3_AlwaysOk == last # NoLast => last.resp = "ok"

\* C4: after an upload (PDF, or photo) that went through pipeline and
\* delivery the session state is idle, whatever state it was in before.
C4_UploadEndsIdle ==
    (/\ Called
     /\ last.pre \in States
     /\ last.msg.has_document \/ last.msg.has_photo
     /\ last.resp = "ok" /\ last.obs.runs = 1 /\ last.obs.docs = 1)
        => StateOf(last.msg.chat) = "idle"

\* a call for a chat starts and finishes in this step
Calls == last = NoLast /\ last' # NoLast /\ last'.msg.has_chat

\* the next step of the funnel
Succ(st) ==
    CASE st = "await_grade" -> "await_subject"
      [] st = "await_subject" -> "await_chapter"
      [] st = "await_chapter" -> "idle"
      [] OTHER -> st

\* txt is in the pending field that state st collects
Stored(sess, st, txt) ==
    /\ sess.has_tmp
    /\ st = "await_grade" => sess.tmp.grade = <<txt>>
    /\ st = "await_subject" => sess.tmp.subject = <<txt>>
    /\ st = "await_chapter" => sess.tmp.chapter = <<txt>>

C6_NoStaleFields ==
    [][(/\ Calls
        /\ SESS[last'.msg.chat].state = "await_chapter"
        /\ PlainText(last'.msg)
        /\ last'.obs.searches > 0) =>
        LET f == flow[last'.msg.chat]
            chapter == <<Strip(last'.msg.text)>>
        IN  /\ f.grade # <<>> /\ f.subject # <<>>
            /\ last'.obs.query = <<Query(f.grade, f.subject, chapter)>>
            /\ last'.obs.runs > 0 => last'.obs.title = <<Title(chapter, f.subject)>>]_vars

\* a pipeline run from await_chapter in a flow that was entered while the
\* session still held the fields of an earlier one
C6_Witness ==
    /\ Called
    /\ last.pre = "await_chapter"
    /\ PlainText(last.msg)
    /\ last.obs.runs = 1
    /\ last.obs.query # <<>>
    /\ flow[last.msg.chat].stale

NothingFound == {"zero_results", "search_failed", "no_text"}

\* C8: when the lookup yields nothing the call still completes: the
\* pipeline runs on the chapter string, the plan is delivered and the state
\* is idle.
C8_EmptyLookupUsesChapter ==
    (/\ Called
     /\ last.pre = "await_chapter"
     /\ PlainText(last.msg)
     /\ last.resp = "ok"
     /\ last.obs.events \cap NothingFound # {})
        => /\ last.obs.runs = 1
           /\ last.obs.source = <<Strip(last.msg.text)>>
           /\ "template_missing" \notin last.obs.events => last.obs.docs = 1
           /\ StateOf(last.msg.chat) = "idle"

\* C9: a page whose extraction fails, or a search result whose fetch or
\* extraction fails, is skipped: the run goes on with the others.
C9_ItemFailureSkipped ==
    Called =>
        /\ (last.resp = "ok" /\ "page_failed" \in last.obs.events)
               => (last.obs.runs = 1 /\ "pdf_failed" \notin last.obs.events)
        /\ last.obs.fault # "extract_text_from_url"

\* the path fill_template_and_send resolves for chat c
Resolved(c) ==
    IF SESS[c].template_path # NoPath THEN SESS[c].template_path
    ELSE DEFAULT_TEMPLATE_PATH

\* C11: a call whose template fill finds no file at the resolved path
\* (the session's override if set, else the default) sends no document and
\* raises nothing of its own: the report goes to the user and the call
\* returns normally and is answered OK, with the state idle after a
\* conversation text; the one fault there can be is the sending of the
\* report itself failing.  In every fill the resolved path is the override
\* whenever one is set.
C11_MissingTemplateReported ==
    (Called /\ last.obs.fills > 0) =>
        /\ last.obs.template = Resolved(last.msg.chat)
        /\ "template_missing" \in last.obs.events =>
              /\ last.obs.docs = 0
              /\ last.obs.fault \in {"none", "send_message"}
              /\ last.obs.fault = "none" =>
                    /\ last.resp = "ok"
                    /\ last.obs.msgs # <<>>
                    /\ last.obs.msgs[Len(last.obs.msgs)] = "template_missing"
                    /\ last.msg.has_text => StateOf(last.msg.chat) = "idle"

\* a chat with an override of its own was told that the template is missing
C11_Witness ==
    /\ Called
    /\ "template_missing" \in last.obs.events
    /\ last.resp = "ok"
    /\ SESS[last.msg.chat].template_path # NoPath
    /\ last.obs.template = SESS[last.msg.chat].template_path

\* C12: every existing session has a state, one of idle, await_text,
\* await_grade, await_subject, await_chapter; the session the first event
\* of a chat creates is in idle.
C12_SessionCreatedIdle ==
    /\ \A c \in Chats : SESS[c].exists => StateOf(c) \in States
    /\ (Called /\ last.pre = "none" /\ ~(last.msg.has_text /\ IsCommand(last.msg.text)))
          => StateOf(last.msg.chat) = "idle"

\* the state each command text sets
CommandState(text) ==
    CASE Strip(text) = HI_RISE -> "idle"
      [] Strip(text) = PASTE_TEXT -> "await_text"
      [] Strip(text) = ASK_BOT -> "await_grade"

\* C13: after a call with a command text the state is the command's (idle
\* for the start command, await_text for "Paste Text", await_grade for
\* "Ask Bot to Find Lesson"), whether or not the message could be sent.
C13_CommandSetsState ==
    (Called /\ last.msg.has_text /\ IsCommand(last.msg.text))
        => StateOf(last.msg.chat) = CommandState(last.msg.text)

IsTemplate(msg) ==
    /\ msg.has_document
    /\ EndsWith(Lower(IF msg.file_name = <<>> THEN DEFAULT_NAME ELSE msg.file_name[1]),
                DOCX_EXT)

\* C14: a call with a document whose name ends in .docx and whose download
\* succeeds changes the chat's session in one place, the template override,
\* which is then the downloaded file; the state and the pending fields are
\* as before, no other session changes, and no pipeline run, fill or
\* document delivery happens.
C14_TemplateUploadFrame ==
    [][(/\ Calls
        /\ IsTemplate(last'.msg)
        /\ "download_failed" \notin last'.obs.events) =>
        LET c == last'.msg.chat
            before == IF SESS[c].exists THEN SESS[c] ELSE EmptySession
        IN  /\ SESS' = [SESS EXCEPT ![c] =
                            [before EXCEPT !.template_path =
                                 LocalPath(c, last'.msg.file_name[1])]]
            /\ last'.obs.runs = 0 /\ last'.obs.fills = 0 /\ last'.obs.docs = 0]_vars

\* a template was saved in the middle of the funnel, a grade pending
C14_Witness ==
    /\ Called
    /\ IsTemplate(last.msg)
    /\ last.resp = "ok"
    /\ last.pre = "await_subject"
    /\ StateOf(last.msg.chat) = "await_subject"
    /\ SESS[last.msg.chat].tmp.grade # <<>>
    /\ SESS[last.msg.chat].template_path = LocalPath(last.msg.chat, FnTemplate)

\* C17: a session in await_subject or await_chapter has the pending-fields
\* mapping with a grade in it, and in await_chapter with a subject too; no
\* call finds the mapping missing, and no query names an absent field.
C17_PendingFieldsPresent ==
    /\ \A c \in Chats :
          /\ StateOf(c) \in {"await_subject", "await_chapter"} =>
                SESS[c].has_tmp /\ SESS[c].tmp.grade # <<>>
          /\ StateOf(c) = "await_chapter" => SESS[c].tmp.subject # <<>>
    /\ Called =>
          /\ last.obs.fault # "KeyError"
          /\ last.obs.query # <<>> => ~Contains(last.obs.query[1], NONE_STR)

\* a query was built in await_chapter, in a flow entered for the second time
C17_Witness ==
    /\ Called
    /\ last.pre = "await_chapter"
    /\ last.obs.query # <<>>
    /\ flow[last.msg.chat].stale
    /\ SESS[last.msg.chat].tmp.subject # <<>>

IsPdf(msg) ==
    /\ msg.has_document
    /\ EndsWith(Lower(IF msg.file_name = <<>> THEN DEFAULT_NAME ELSE msg.file_name[1]),
                PDF_EXT)

\* the events that may run the pipeline
MayRun(o) ==
    \/ IsPdf(o.msg)
    \/ o.msg.has_photo /\ OCR_AVAILABLE
    \/ PlainText(o.msg) /\ o.pre \in {"await_text", "await_chapter"}

\* C19: a call makes at most one pipeline run and at most one document
\* delivery, a delivery only after a run, and a run only for a PDF upload,
\* a photo with OCR available, or a text that is no command in await_text
\* or await_chapter; never after a failed download.
C19_AtMostOneRun ==
    last # NoLast =>
        /\ last.obs.runs <= 1 /\ last.obs.docs <= 1 /\ last.obs.fills <= 1
        /\ last.obs.docs <= last.obs.fills /\ last.obs.fills <= last.obs.runs
        /\ last.obs.runs > 0 =>
              /\ last.msg.has_chat /\ MayRun(last)
              /\ "download_failed" \notin last.obs.events

\* a scanned photo went through the pipeline and was delivered
C19_Witness ==
    /\ Called
    /\ last.msg.has_photo
    /\ last.obs.runs = 1 /\ last.obs.docs = 1
    /\ last.pre = "await_grade"

---------------------------------------------------------------------------
(* Properties of the find-a-lesson conversation *)

ScriptStates == <<"idle", "await_grade", "await_subject", "await_chapter", "idle">>

\* C1: as long as every call of the script is answered OK, the session
\* state after the k-th update is the k-th of idle, await_grade,
\* await_subject, await_chapter, idle; no pipeline run, search or template
\* fill happens before the last update, and the whole script makes exactly
\* one of each, with a search query that contains "g s c" (the three texts
\* as the handler keeps them, stripped).
C1_ScriptDrivesFunnel ==
    (script.ok /\ step > 0) =>
        /\ script.states = SubSeq(ScriptStates, 1, step)
        /\ step < ScriptLen =>
              script.runs = 0 /\ script.searches = 0 /\ script.fills = 0
        /\ step = ScriptLen =>
              /\ script.runs = 1 /\ script.searches = 1 /\ script.fills = 1
              /\ script.query # <<>>
              /\ Contains(script.query[1],
                          Strip(script.texts[3]) \o SP \o Strip(script.texts[4])
                              \o SP \o Strip(script.texts[5]))

\* the whole script has been answered OK, after earlier updates, with three
\* different texts
C1_Witness ==
    /\ step = ScriptLen /\ script.ok /\ script.prefix > 0
    /\ script.texts[3] = TxtGrade
    /\ script.texts[4] = TxtSubject
    /\ script.texts[5] = TxtChapter

---------------------------------------------------------------------------
(* Properties of summarize_text *)

\* text[:n]
Slice(text, n) == SubSeq(text, 1, Min(n, Len(text)))

\* C10: summarize_text never raises and returns at most sentences_count
\* lines; when the summarizer fails the result is a leading slice of the
\* text.
C10_SummarizeNeverRaises ==
    fn.op = "summarize_text" =>
        /\ ~fn.result.raised
        /\ Lines(fn.result.value) <= fn.count
        /\ ~fn.nlp.ok => \E n \in 0..Len(fn.text) : fn.result.value = Slice(fn.text, n)

---------------------------------------------------------------------------
(* Properties of the generators and the template filler *)

KeywordSentence(s) == s # <<>> /\ \E k \in KEYWORDS : Contains(Lower(s), k)

\* the sentences of text (split on the period, trimmed) that hold a keyword
Matching(text) ==
    LET pieces == Split(text, ".")
    IN  SelectSeq([i \in 1..Len(pieces) |-> Strip(pieces[i])], KeywordSentence)

ExampleBullet == <<"U+2022", " ", "S", "t", "u", "d", "e", "n", "t", "s", " ", "w", "i", "l", "l", " ", "u", "n", "d", "e", "r", "s", "t", "a", "n", "d", " ", "f", "r", "a", "c", "t", "i", "o", "n", "s">>

\* C15: when a sentence of the text holds a keyword (in any case), the
\* objectives are one bullet line per matching sentence, in document order,
\* the first max_points of them and nothing else; the text "Students will
\* understand fractions. The sky is blue." gives the one bullet
\* "Students will understand fractions".
C15_ObjectivesAreKeywordSentences ==
    (fn.op = "extract_objectives_from_text" /\ Matching(fn.text) # <<>>) =>
        LET m == Matching(fn.text)
            n == Min(fn.count, Len(m))
            out == IF fn.result.value = <<>> THEN <<>> ELSE Split(fn.result.value, "\n")
        IN  /\ ~fn.result.raised
            /\ Len(out) = n
            /\ \A i \in 1..n : out[i] = BULLET \o m[i]
            /\ (fn.text = TxtExample /\ fn.count > 0) => fn.result.value = ExampleBullet

\* the example of the spec, with a cap that would let two bullets through
C15_Witness ==
    /\ fn.op = "extract_objectives_from_text"
    /\ fn.text = TxtExample
    /\ fn.count = MaxCount
    /\ fn.result.value = ExampleBullet

\* s without its trailing punctuation marks
RECURSIVE StripPunct(_)
StripPunct(s) ==
    IF s = <<>> \/ s[Len(s)] \notin {".", "?", "!", ",", ";", ":"} THEN s
    ELSE StripPunct(SubSeq(s, 1, Len(s) - 1))

LongEnough(s) == WordCount(StripPunct(Strip(s))) >= 3

\* C16: the assessment is never an exception and never empty: one line
\* "Q{n}. Explain: {sentence}?" for each sentence of the summary at count 4
\* that has at least 3 words, the sentence without its trailing
\* punctuation, at most 4 lines; the two placeholder questions when no
\* sentence has 3 words.
C16_AssessmentQuestions ==
    fn.op = "generate_assessment_questions" =>
        /\ ~fn.result.raised
        /\ fn.result.value # <<>>
        /\ LET summary == summarize_text(fn.text, 4, fn.nlp).value
               retained == SelectSeq(Split(summary, "\n"), LongEnough)
               out == Split(fn.result.value, "\n")
           IN  IF retained = <<>> THEN out = <<Q_MAIN_IDEA, Q_KEY_POINTS>>
               ELSE /\ Len(out) = Len(retained) /\ Len(out) <= 4
                    /\ \A i \in 1..Len(out) : \E n \in 1..4 :
                          out[i] = <<"Q">> \o Str(n) \o EXPLAIN
                                       \o StripPunct(Strip(retained[i])) \o <<"?">>

\* every placeholder of the text replaced by its value at once, the values
\* left as they are
RECURSIVE SubstAll(_, _)
SubstAll(s, values) ==
    IF s = <<>> THEN <<>>
    ELSE IF \E i \in 1..Len(REPLACEMENT_KEYS) : StartsWith(s, REPLACEMENT_KEYS[i])
    THEN LET i == CHOOSE i \in 1..Len(REPLACEMENT_KEYS) : StartsWith(s, REPLACEMENT_KEYS[i])
         IN  values[i] \o SubstAll(SubSeq(s, Len(REPLACEMENT_KEYS[i]) + 1, Len(s)), values)
    ELSE <<Head(s)>> \o SubstAll(Tail(s), values)

\* C20: the filled text is the template text with each placeholder
\* occurrence replaced once by its field value, the value verbatim: a
\* placeholder quoted inside a value stays as it is.
C20_FillerVerbatim ==
    fn.op = "fill_text" =>
        fn.result.value = SubstAll(fn.text, Replacements(fn.values))

---------------------------------------------------------------------------
(* Properties of the threaded server *)

BothServed == \A i \in Threads : th[i].served

Overlapped == \E i \in Threads : th[i].over

\* SESS when the first of the two calls began
Base == th[CHOOSE i \in Threads : th[i].first].base

\* the session maps that handling a, then b, one at a time can leave
SerialOutcomes(a, b, S) ==
    UNION {{r.S : r \in webhook(b, Sa)} : Sa \in {r.S : r \in webhook(a, S)}}

Serializable ==
    SESS \in SerialOutcomes(th[1].t.msg, th[2].t.msg, Base)
              \cup SerialOutcomes(th[2].t.msg, th[1].t.msg, Base)

\* call i is a paste-text pipeline run that finished last and was answered OK
FinishingRun(i) ==
    /\ th[i].late
    /\ th[i].t.pc = "done"
    /\ th[i].t.state = "await_text"

\* C7: two calls for one chat that do not overlap leave a session that
\* handling them one at a time leaves, and a pipeline run that finishes last
\* writes idle over whatever state the other call has set meanwhile: with
\* overlapping calls a session that no serial order leaves is reachable
\* (C7_Witness).
C7_OverlapLosesUpdate ==
    BothServed =>
        /\ ~Overlapped => Serializable
        /\ \A i \in Threads : FinishingRun(i) => StateOf(th[i].t.msg.chat) = "idle"

\* a pipeline run began in await_text, "Ask Bot to Find Lesson" was handled
\* meanwhile, the run finished last: the state is idle, which neither order
\* of the two updates leaves
C7_Witness ==
    /\ BothServed
    /\ Overlapped
    /\ \E i \in Threads :
          /\ FinishingRun(i)
          /\ th[Other(i)].t.msg.text = ASK_BOT
          /\ th[Other(i)].t.pc = "done"
          /\ StateOf(th[i].t.msg.chat) = "idle"
    /\ ~Serializable

====
